---- MODULE Spec2Model ----
(***************************************************************************)
(* State-machine model of the KI Self Sustain dashboard: the App shell     *)
(* (tab router), SystemMonitor (status poller), FlowiseManager (chatflow   *)
(* panel) and ChatInterface (chat composer).                               *)
(*                                                                         *)
(* Every async handler is cut at its await points: one action per          *)
(* continuation, so that handlers interleave exactly where the browser     *)
(* event loop lets them interleave.  The state followed is that of the     *)
(* panel's latest instance: its handlers keep calling its setters also     *)
(* after it was unmounted, until a new instance replaces it.               *)
(*                                                                         *)
(* renderContent shows exactly one panel and the panels share no state, so *)
(* a behaviour follows the one dynamic panel named by visit.               *)
(***************************************************************************)
EXTENDS Integers, Sequences, FiniteSets, TLC

\* ---------------------------------------------------------------- bounds
MaxPolls == 2        \* polls SystemMonitor starts in one behaviour
MaxInFlight == 2     \* async operations of one kind in flight together
MaxMounts == 2       \* instances of a panel created in one behaviour
MaxRefresh == 3      \* refreshes FlowiseManager starts in one behaviour
MaxClicks == 2       \* user inputs FlowiseManager takes in one behaviour
MaxFlows == 1        \* chatflows a response lists
MaxSends == 1        \* messages ChatInterface sends in one behaviour
MaxChatSends == 2    \* messages sent in a behaviour that follows the clock
MaxTicks == 1        \* milliseconds the clock advances in one behaviour
FirstMs == 2         \* Date.now() when the App opens: any reading above 1

\* ---------------------------------------------------- program constants
WindowCap == 20      \* slice(-20)
SMInterval == 5000   \* setInterval(fetchSystemData, 5000)
FMInterval == 30000  \* setInterval(fetchFlowiseData, 30000)

VARIABLES
    visit,        \* the dynamic panel this behaviour opens
    activeTab,    \* App: activeTab
    smInst,       \* SystemMonitor instances created so far (the last is current)
    smTimer,      \* period of the armed setInterval of the current instance, else 0
    systemData,   \* SystemMonitor: systemData of the current instance
    heap,         \* the services objects systemData.services refers to
    smPolls,      \* fetchSystemData calls in flight
    smSeq,        \* fetchSystemData calls started so far (the next id - 1)
    smLimit,      \* last poll id this behaviour may start
    lastUpdate,   \* the time of setLastUpdate: 0 at mount, or the id of a poll
    smDone,       \* the fetchSystemData call that returned in the step just taken
    fmInst,       \* FlowiseManager instances created so far
    fmTimer,      \* period of the armed setInterval of the current instance, else 0
    chatflows,    \* FlowiseManager: chatflows (the flows listed are 1..chatflows)
    loading,      \* FlowiseManager: loading
    flowiseConfig,\* FlowiseManager: flowiseConfig
    newChatflow,  \* FlowiseManager: newChatflow (the dialog's form)
    testMessage,  \* FlowiseManager: testMessage
    testResults,  \* FlowiseManager: testResults, by chatflow id
    fmCalls,      \* fetchFlowiseData calls in flight
    fmActions,    \* create / test / optimize / auto-optimize handlers in flight
    fmSeq,        \* fetchFlowiseData calls started so far
    fmClicks,     \* user inputs FlowiseManager has taken so far
    fmDone,       \* the fetchFlowiseData call that returned in the step just taken
    chInst,       \* ChatInterface instances created so far
    messages,     \* ChatInterface: messages
    inputValue,   \* ChatInterface: inputValue
    isLoading,    \* ChatInterface: isLoading
    chSends,      \* handleSendMessage calls in flight
    chSeq,        \* handleSendMessage calls accepted so far
    chLimit,      \* last send id this behaviour may start
    msgIds,       \* ChatInterface: the id of each message, doubled (+0.5 is +1)
    now,          \* Date.now()
    chDone,       \* the handleSendMessage call that returned in the step just taken
    shScript,     \* the shell script that is run, "none" in a behaviour of the App
    shPc,         \* the next command of the script
    shTools,      \* which of docker and docker-compose `command -v` finds
    shFiles,      \* .env.local and docker-compose.yaml in the working directory
    shOut,        \* what the script has run and printed so far, in order
    shExit,       \* "running", or the exit status of the script
    systemStatus, \* App: what the header badge shows
    sidebarOpen,  \* App: the mobile sidebar is slid in
    statusReq     \* App: "pending", or how the status request of the mount effect settled

smVars == <<smInst, smTimer, systemData, heap, smPolls, smSeq, smLimit, lastUpdate,
           smDone>>
fmVars == <<fmInst, fmTimer, chatflows, loading, flowiseConfig, newChatflow,
            testMessage, testResults, fmCalls, fmActions, fmSeq, fmClicks, fmDone>>
chVars == <<chInst, messages, inputValue, isLoading, chSends, chSeq, chLimit, msgIds,
           now, chDone>>
shVars == <<shScript, shPc, shTools, shFiles, shOut, shExit>>
appVars == <<systemStatus, sidebarOpen, statusReq>>
vars == <<visit, activeTab, smVars, fmVars, chVars, shVars, appVars>>

\* ------------------------------------------------------------------ App
Tabs == {"dashboard", "chat", "flowise", "ethics", "security", "improvement", "services"}
DynamicTabs == {"dashboard", "chat", "flowise"}
\* the four other panels are constant markup: a behaviour leaves its dynamic
\* panel through this one
AwayTab == "ethics"

\* ------------------------------------------------------- SystemMonitor
Services == {"backend", "learning", "flowise"}
Settled == {"rejected", "non2xx", "ok"}
NumObjs == MaxInFlight + 3
ObjIds == 1..NumObjs

EmptyServices == [s \in Services |-> "unset"]
AllOffline == [s \in Services |-> "offline"]
NoneOk == [s \in Services |-> FALSE]

\* useState initial value; the instance's first services object is heap cell 1
InitialSystemData ==
    [status |-> "loading", learning |-> "empty", services |-> 1, performance |-> <<>>]

NoPoll == [id |-> 0, kind |-> "none", ok |-> NoneOk, threw |-> FALSE]

\* objects still referenced by the state, a closure in flight or the first render
Refs(sd, polls) ==
    {1, sd.services} \cup {p.systemData.services : p \in polls}

\* unreferenced objects are reclaimed
Collect(h, sd, polls) ==
    [o \in ObjIds |-> IF o \in Refs(sd, polls) THEN h[o] ELSE EmptyServices]

NewObject == CHOOSE o \in ObjIds \ Refs(systemData, smPolls) :
                 \A x \in ObjIds \ Refs(systemData, smPolls) : o <= x

\* slice without the cap
SliceAll(s, n) == s

\* Array.prototype.slice(-n)
SliceLast(s, n) == IF Len(s) <= n THEN s ELSE SubSeq(s, Len(s) - n + 1, Len(s))

\* the component is on screen
smMounted == activeTab = "dashboard"

\* the stored value without the default
ServiceStatusRaw(s) == heap[systemData.services][s]

\* what a render reads: systemData.services.x || 'offline'
ServiceStatus(s) ==
    LET v == heap[systemData.services][s]
    IN  IF v = "unset" THEN "offline" ELSE v

LLMServiceStatus == "checking"

\* statusRes.status === 'fulfilled' && statusRes.value.ok
FulfilledOk(r) == r = "ok"

\* fetchSystemData up to the first await: the three fetches are issued; sd is the
\* systemData the callback closed over
fetchSystemData(polls, kind, sd) ==
    /\ smSeq < smLimit
    /\ Cardinality(polls) < MaxInFlight
    /\ smPolls' = polls \cup
           {[id |-> smSeq + 1, kind |-> kind, systemData |-> sd,
             pc |-> "allSettled", ok |-> NoneOk,
             newData |-> [status |-> sd.status, learning |-> sd.learning]]}
    /\ smSeq' = smSeq + 1
    /\ smDone' = NoPoll

\* the synchronous run from one block of the try body to the next await
ProcessFlowise(p, h) ==
    IF p.ok.flowise
    THEN [p |-> [p EXCEPT !.pc = "flowise_json"], h |-> h, end |-> FALSE]
    ELSE [p |-> p, h |-> [h EXCEPT ![p.systemData.services].flowise = "offline"],
          end |-> TRUE]

ProcessLearning(p, h) ==
    IF p.ok.learning
    THEN [p |-> [p EXCEPT !.pc = "learning_json"], h |-> h, end |-> FALSE]
    ELSE ProcessFlowise(p, [h EXCEPT ![p.systemData.services].learning = "offline"])

ProcessStatus(p, h) ==
    IF p.ok.backend
    THEN [p |-> [p EXCEPT !.pc = "status_json"], h |-> h, end |-> FALSE]
    ELSE ProcessLearning(p, [h EXCEPT ![p.systemData.services].backend = "offline"])

Returned(p, threw) == [id |-> p.id, kind |-> p.kind, ok |-> p.ok, threw |-> threw]

\* a completion that is dropped once the component is off screen
SetSystemDataIfMounted(p, h) ==
    /\ systemData' =
           IF smMounted
           THEN [status |-> p.newData.status,
                 learning |-> p.newData.learning,
                 services |-> p.systemData.services,
                 performance |-> SliceLast(Append(p.systemData.performance, p.id), WindowCap)]
           ELSE systemData
    /\ lastUpdate' = IF smMounted THEN p.id ELSE lastUpdate
    /\ heap' = Collect(h, systemData', smPolls')
    /\ smDone' = Returned(p, FALSE)

\* newData.performance = [...systemData.performance, point].slice(-20);
\* setSystemData(newData); setLastUpdate(new Date())
SetSystemData(p, h) ==
    /\ systemData' =
           [status |-> p.newData.status,
            learning |-> p.newData.learning,
            services |-> p.systemData.services,
            performance |-> SliceLast(Append(p.systemData.performance, p.id), WindowCap)]
    /\ lastUpdate' = p.id
    /\ heap' = Collect(h, systemData', smPolls')
    /\ smDone' = Returned(p, FALSE)

\* a catch that keeps online the services whose request was 2xx
CatchSystemDataKeepsOk(p) ==
    /\ smPolls' = smPolls \ {p}
    /\ UNCHANGED <<smSeq, lastUpdate>>
    /\ LET o == NewObject
       IN  /\ systemData' = [systemData EXCEPT !.status = "error", !.services = o]
           /\ heap' = Collect([heap EXCEPT ![o] =
                                  [s \in Services |-> IF p.ok[s] THEN "online"
                                                      ELSE "offline"]],
                              systemData', smPolls')
           /\ smDone' = Returned(p, TRUE)

\* catch: setSystemData(prev => ({...prev, status: 'error', services: {all offline}}))
CatchSystemData(p) ==
    /\ smPolls' = smPolls \ {p}
    /\ UNCHANGED <<smSeq, lastUpdate>>
    /\ LET o == NewObject
       IN  /\ systemData' = [systemData EXCEPT !.status = "error", !.services = o]
           /\ heap' = Collect([heap EXCEPT ![o] = AllOffline], systemData', smPolls')
           /\ smDone' = Returned(p, TRUE)

Continue(p, r) ==
    /\ UNCHANGED smSeq
    /\ smPolls' = IF r.end THEN smPolls \ {p} ELSE (smPolls \ {p}) \cup {r.p}
    /\ IF r.end THEN SetSystemData(r.p, r.h)
       ELSE /\ heap' = r.h
            /\ smDone' = NoPoll
            /\ UNCHANGED <<systemData, lastUpdate>>

\* Promise.allSettled resolves: each fetch was rejected or fulfilled (2xx or not)
AllSettled(p, res) ==
    /\ p.pc = "allSettled"
    /\ Continue(p, ProcessStatus([p EXCEPT !.ok = [s \in Services |-> FulfilledOk(res[s])]],
                                 heap))
    /\ UNCHANGED <<shVars, appVars, visit, activeTab, chVars, smInst, smTimer, smLimit, fmVars>>

StatusBodies == {"bad", "none", "active", "warning"}
\* await statusRes.value.json() returns or throws
StatusJson(p, body) ==
    /\ p.pc = "status_json"
    /\ IF body = "bad"
       THEN CatchSystemData(p)
       ELSE Continue(p, ProcessLearning(
                [p EXCEPT !.newData.status = IF body = "none" THEN "active" ELSE body],
                [heap EXCEPT ![p.systemData.services].backend = "online"]))
    /\ UNCHANGED <<shVars, appVars, visit, activeTab, chVars, smInst, smTimer, smLimit, fmVars>>

LearningBodies == {"bad", "none", "insights"}
\* await learningRes.value.json() returns or throws
LearningJson(p, body) ==
    /\ p.pc = "learning_json"
    /\ IF body = "bad"
       THEN CatchSystemData(p)
       ELSE Continue(p, ProcessFlowise(
                [p EXCEPT !.newData.learning = IF body = "none" THEN "empty" ELSE body],
                [heap EXCEPT ![p.systemData.services].learning = "online"]))
    /\ UNCHANGED <<shVars, appVars, visit, activeTab, chVars, smInst, smTimer, smLimit, fmVars>>

FlowiseBodies == {"bad", "config"}
\* await flowiseRes.value.json() returns or throws
FlowiseJson(p, body) ==
    /\ p.pc = "flowise_json"
    /\ IF body = "bad"
       THEN CatchSystemData(p)
       ELSE Continue(p, [p |-> p,
                         h |-> [heap EXCEPT ![p.systemData.services].flowise = "online"],
                         end |-> TRUE])
    /\ UNCHANGED <<shVars, appVars, visit, activeTab, chVars, smInst, smTimer, smLimit, fmVars>>

\* setInterval(fetchSystemData, 5000): the callback of the first render
SMTick ==
    /\ smTimer # 0
    /\ fetchSystemData(smPolls, "timer", InitialSystemData)
    /\ UNCHANGED <<shVars, appVars, visit, activeTab, chVars, smInst, smTimer, systemData, heap, smLimit, lastUpdate,
                   fmVars>>

\* onClick={fetchSystemData}: the callback of the latest render
SMRefresh ==
    /\ smMounted
    /\ fetchSystemData(smPolls, "manual", systemData)
    /\ UNCHANGED <<shVars, appVars, visit, activeTab, chVars, smInst, smTimer, systemData, heap, smLimit, lastUpdate,
                   fmVars>>

\* a new instance: useState initial values, then
\* useEffect(() => {fetchSystemData(); setInterval(...)}, []).  Calls of the
\* replaced instance write only the state of that instance, which nothing
\* reads any more: they are no longer followed.
SMMount ==
    /\ smInst < MaxMounts
    /\ smInst' = smInst + 1
    /\ smTimer' = SMInterval
    /\ systemData' = InitialSystemData
    /\ heap' = [o \in ObjIds |-> EmptyServices]
    /\ lastUpdate' = 0
    /\ fetchSystemData({}, "mount", InitialSystemData)
    /\ UNCHANGED smLimit

\* a cleanup that leaves the interval armed
SMUnmountKeepsTimer ==
    /\ smDone' = NoPoll
    /\ UNCHANGED <<smInst, smTimer, systemData, heap, smPolls, smSeq, smLimit, lastUpdate>>

\* the effect's cleanup: clearInterval(interval)
SMUnmount ==
    /\ smTimer' = 0
    /\ smDone' = NoPoll
    /\ UNCHANGED <<smInst, systemData, heap, smPolls, smSeq, smLimit, lastUpdate>>

\* ------------------------------------------------------ FlowiseManager
\* text is a sequence of characters
Blank(s) == \A k \in 1..Len(s) : s[k] = " "
\* String.prototype.trim() leaves nothing
TrimIsEmpty(s) == Blank(s)

TestMessages == {<<>>, <<" ", " ">>, <<"H", "i">>}

\* useState initial value (the two endpoint strings are display text only)
InitialFlowiseConfig == [status |-> "checking", llm_status |-> "absent"]

\* a fetch is rejected, or fulfilled with a non-2xx response, or fulfilled with
\* a 2xx response whose body is then read by await res.json().  No state of the
\* panel changes between a 2xx response and the end of json(), so the two
\* awaits are one step.
Replies(Bodies) ==
    {[r |-> "rejected"], [r |-> "non2xx"]} \cup {[r |-> "ok", body |-> b] : b \in Bodies}

\* a config response carries any fields: "other" is a string the panel never writes
BadJson == [parses |-> FALSE]
ConfigBodies ==
    {BadJson} \cup {[parses |-> TRUE, status |-> s, llm_status |-> s] :
                       s \in {"absent", "other"}}
ChatflowBodies ==
    {BadJson} \cup {[parses |-> TRUE, hasData |-> FALSE, data |-> 0]}
              \cup {[parses |-> TRUE, hasData |-> TRUE, data |-> n] : n \in 0..MaxFlows}
\* bodies of test-connection that carry flowise.status and llm.status
TestBodies ==
    {BadJson} \cup {[parses |-> TRUE, flowise |-> f, llm |-> l] :
                       f \in {"success", "failed"}, l \in {"success", "failed"}}
ResultBodies == {"bad", "noresults", "result"}

NoCall == [id |-> 0, non2xx |-> FALSE, threw |-> FALSE, rejected |-> FALSE, pc |-> "none"]
NoResults == [f \in 1..MaxFlows |-> "none"]

fmMounted == activeTab = "flowise"

\* the badges: {flowiseConfig.status} and {flowiseConfig.llm_status || 'Prüfung...'}
FlowiseStatus == flowiseConfig.status
LLMStatus == IF flowiseConfig.llm_status = "absent" THEN "Prüfung..."
             ELSE flowiseConfig.llm_status

\* fetchFlowiseData up to its first await: setLoading(true), the config fetch is issued
fetchFlowiseData(calls) ==
    /\ fmSeq < MaxRefresh
    /\ Cardinality(calls) < MaxInFlight
    /\ loading' = TRUE
    /\ fmCalls' = calls \cup {[id |-> fmSeq + 1, pc |-> "config", non2xx |-> FALSE]}
    /\ fmSeq' = fmSeq + 1
    /\ fmDone' = NoCall

\* the call goes on to its next fetch
Await(c, pc, non2xx) ==
    /\ fmCalls' = (fmCalls \ {c}) \cup {[c EXCEPT !.pc = pc, !.non2xx = non2xx]}
    /\ fmDone' = NoCall
    /\ UNCHANGED <<loading, fmSeq>>

\* an await throws: the fetch was rejected, or json() could not parse the body
Threw(reply) == reply.r = "rejected" \/ (reply.r = "ok" /\ ~reply.body.parses)

\* finally: setLoading(false); reply is what the call's last request got
Finally(c, non2xx, reply) ==
    /\ fmCalls' = fmCalls \ {c}
    /\ loading' = FALSE
    /\ fmDone' = [id |-> c.id, non2xx |-> non2xx, threw |-> Threw(reply),
                  rejected |-> reply.r = "rejected", pc |-> c.pc]
    /\ UNCHANGED fmSeq

\* a catch that also empties the list
CatchFlowiseClearsList(c, reply) ==
    /\ flowiseConfig' = [flowiseConfig EXCEPT !.status = "offline"]
    /\ Finally(c, c.non2xx, reply)
    /\ chatflows' = 0

\* catch: setFlowiseConfig(prev => ({...prev, status: 'offline'}))
CatchFlowise(c, reply) ==
    /\ flowiseConfig' = [flowiseConfig EXCEPT !.status = "offline"]
    /\ Finally(c, c.non2xx, reply)
    /\ UNCHANGED chatflows

\* await fetch('/api/flowise/config'); if (configRes.ok) setFlowiseConfig(await configRes.json())
ConfigReply(c, reply) ==
    /\ c.pc = "config"
    /\ IF Threw(reply) THEN CatchFlowise(c, reply)
       ELSE /\ flowiseConfig' =
                   IF reply.r = "ok"
                   THEN [status |-> reply.body.status, llm_status |-> reply.body.llm_status]
                   ELSE flowiseConfig
            /\ Await(c, "chatflows", reply.r = "non2xx")
            /\ UNCHANGED chatflows
    /\ UNCHANGED <<shVars, appVars, visit, activeTab, chVars, smVars, fmInst, fmTimer, newChatflow, testMessage,
                   testResults, fmActions, fmClicks>>

\* chatflowsData.data || []: the number of chatflows the panel will list
ChatflowsOf(body) == IF body.hasData THEN body.data ELSE 0

\* await fetch('/api/flowise/chatflows'); setChatflows(chatflowsData.data || []) or
\* setChatflows([])
ChatflowsReply(c, reply) ==
    /\ c.pc = "chatflows"
    /\ IF Threw(reply) THEN CatchFlowise(c, reply)
       ELSE /\ chatflows' = IF reply.r = "ok" THEN ChatflowsOf(reply.body) ELSE 0
            /\ Await(c, "test", c.non2xx)
            /\ UNCHANGED flowiseConfig
    /\ UNCHANGED <<shVars, appVars, visit, activeTab, chVars, smVars, fmInst, fmTimer, newChatflow, testMessage,
                   testResults, fmActions, fmClicks>>

OnlineIf(status) == IF status = "success" THEN "online" ELSE "offline"

\* await fetch('/api/flowise/test-connection'); if (testRes.ok)
\* setFlowiseConfig(prev => ({...prev, status, llm_status})); finally
TestReply(c, reply) ==
    /\ c.pc = "test"
    /\ IF Threw(reply) THEN CatchFlowise(c, reply)
       ELSE /\ flowiseConfig' =
                   IF reply.r = "ok"
                   THEN [flowiseConfig EXCEPT !.status = OnlineIf(reply.body.flowise),
                                              !.llm_status = OnlineIf(reply.body.llm)]
                   ELSE flowiseConfig
            /\ Finally(c, c.non2xx \/ reply.r = "non2xx", reply)
            /\ UNCHANGED chatflows
    /\ UNCHANGED <<shVars, appVars, visit, activeTab, chVars, smVars, fmInst, fmTimer, newChatflow, testMessage,
                   testResults, fmActions, fmClicks>>

\* setInterval(fetchFlowiseData, 30000)
FMTick ==
    /\ fmTimer # 0
    /\ fetchFlowiseData(fmCalls)
    /\ UNCHANGED <<shVars, appVars, visit, activeTab, chVars, smVars, fmInst, fmTimer, chatflows, flowiseConfig,
                   newChatflow, testMessage, testResults, fmActions, fmClicks>>

\* the panel's controls are rendered only while loading is false
CanClick ==
    /\ fmMounted
    /\ ~loading
    /\ fmClicks < MaxClicks

\* onClick={fetchFlowiseData}
FMRefresh ==
    /\ CanClick
    /\ fmClicks' = fmClicks + 1
    /\ fetchFlowiseData(fmCalls)
    /\ UNCHANGED <<shVars, appVars, visit, activeTab, chVars, smVars, fmInst, fmTimer, chatflows, flowiseConfig,
                   newChatflow, testMessage, testResults, fmActions>>

\* onChange of the test input: setTestMessage(e.target.value)
SetTestMessage(text) ==
    /\ CanClick
    /\ text # testMessage
    /\ chatflows > 0
    /\ fmClicks' = fmClicks + 1
    /\ testMessage' = text
    /\ fmDone' = NoCall
    /\ UNCHANGED <<shVars, appVars, visit, activeTab, chVars, smVars, fmInst, fmTimer, chatflows, loading,
                   flowiseConfig, newChatflow, testResults, fmCalls, fmActions, fmSeq>>

\* onChange of the dialog's inputs: setNewChatflow(prev => ({...prev, name}))
SetNewChatflow ==
    /\ CanClick
    /\ newChatflow = "empty"
    /\ fmClicks' = fmClicks + 1
    /\ newChatflow' = "typed"
    /\ fmDone' = NoCall
    /\ UNCHANGED <<shVars, appVars, visit, activeTab, chVars, smVars, fmInst, fmTimer, chatflows, loading,
                   flowiseConfig, testMessage, testResults, fmCalls, fmActions, fmSeq>>

\* a handler issues its fetch and awaits it
IssueRequest(type, flow) ==
    /\ Cardinality(fmActions) < MaxInFlight
    /\ fmActions' = fmActions \cup {[type |-> type, flow |-> flow, requests |-> 1]}

\* handleCreateChatflow .. await fetch(POST /api/flowise/chatflows)
handleCreateChatflow ==
    /\ CanClick
    /\ fmClicks' = fmClicks + 1
    /\ IssueRequest("create", 0)
    /\ fmDone' = NoCall
    /\ UNCHANGED <<shVars, appVars, visit, activeTab, chVars, smVars, fmInst, fmTimer, chatflows, loading,
                   flowiseConfig, newChatflow, testMessage, testResults, fmCalls, fmSeq>>

\* handleTestChatflow(chatflowId): if (!testMessage.trim()) return
handleTestChatflow(flow) ==
    /\ CanClick
    /\ flow \in 1..chatflows
    /\ ~TrimIsEmpty(testMessage)
    /\ fmClicks' = fmClicks + 1
    /\ IssueRequest("test", flow)
    /\ fmDone' = NoCall
    /\ UNCHANGED <<shVars, appVars, visit, activeTab, chVars, smVars, fmInst, fmTimer, chatflows, loading,
                   flowiseConfig, newChatflow, testMessage, testResults, fmCalls, fmSeq>>

\* handleOptimizeChatflow(chatflowId)
handleOptimizeChatflow(flow) ==
    /\ CanClick
    /\ flow \in 1..chatflows
    /\ fmClicks' = fmClicks + 1
    /\ IssueRequest("optimize", flow)
    /\ fmDone' = NoCall
    /\ UNCHANGED <<shVars, appVars, visit, activeTab, chVars, smVars, fmInst, fmTimer, chatflows, loading,
                   flowiseConfig, newChatflow, testMessage, testResults, fmCalls, fmSeq>>

\* handleAutoOptimize
handleAutoOptimize ==
    /\ CanClick
    /\ fmClicks' = fmClicks + 1
    /\ IssueRequest("auto", 0)
    /\ fmDone' = NoCall
    /\ UNCHANGED <<shVars, appVars, visit, activeTab, chVars, smVars, fmInst, fmTimer, chatflows, loading,
                   flowiseConfig, newChatflow, testMessage, testResults, fmCalls, fmSeq>>

\* a handler that sends its request once more before it returns
ActionRetries(a) ==
    /\ fmActions' = IF a.requests < 2
                    THEN (fmActions \ {a}) \cup {[a EXCEPT !.requests = a.requests + 1]}
                    ELSE fmActions \ {a}
    /\ fmDone' = NoCall
    /\ UNCHANGED <<loading, fmCalls, fmSeq>>

\* the handler returns without a further request
ActionReturns(a) ==
    /\ fmActions' = fmActions \ {a}
    /\ fmDone' = NoCall
    /\ UNCHANGED <<loading, fmCalls, fmSeq>>

\* the handler returns after calling fetchFlowiseData()
ActionRefreshes(a) ==
    /\ fmActions' = fmActions \ {a}
    /\ fetchFlowiseData(fmCalls)

\* handleCreateChatflow after its await: if (response.ok) {reset the form; fetchFlowiseData()}
CreateReply(a, r) ==
    /\ a.type = "create"
    /\ IF r = "ok"
       THEN newChatflow' = "empty" /\ ActionRefreshes(a)
       ELSE UNCHANGED newChatflow /\ ActionReturns(a)
    /\ UNCHANGED <<shVars, appVars, visit, activeTab, chVars, smVars, fmInst, fmTimer, chatflows, flowiseConfig,
                   testMessage, testResults, fmClicks>>

\* handleTestChatflow after its awaits: a rejected fetch or a body that does not
\* parse goes to catch, else status: response.ok ? 'success' : 'error'
TestChatflowReply(a, reply) ==
    /\ a.type = "test"
    /\ testResults' = [testResults EXCEPT ![a.flow] =
                           IF reply.r = "ok" /\ reply.body # "bad" THEN "success"
                           ELSE "error"]
    /\ ActionReturns(a)
    /\ UNCHANGED <<shVars, appVars, visit, activeTab, chVars, smVars, fmInst, fmTimer, chatflows, flowiseConfig,
                   newChatflow, testMessage, fmClicks>>

\* handleOptimizeChatflow / handleAutoOptimize after their awaits: if (response.ok)
\* {await response.json(); alert(...); fetchFlowiseData()}.  A body that does not
\* parse, or result.results.length of a body without results, goes to catch
OptimizeReply(a, reply) ==
    /\ a.type \in {"optimize", "auto"}
    /\ IF reply.r = "ok" /\ reply.body # "bad"
                         /\ ~(reply.body = "noresults" /\ a.type = "auto")
       THEN ActionRefreshes(a)
       ELSE ActionReturns(a)
    /\ UNCHANGED <<shVars, appVars, visit, activeTab, chVars, smVars, fmInst, fmTimer, chatflows, flowiseConfig,
                   newChatflow, testMessage, testResults, fmClicks>>

\* a new instance: useState initial values, then
\* useEffect(() => {fetchFlowiseData(); setInterval(...)}, []).  Calls of the
\* replaced instance are no longer followed.
FMMount ==
    /\ fmInst < MaxMounts
    /\ fmInst' = fmInst + 1
    /\ fmTimer' = FMInterval
    /\ chatflows' = 0
    /\ flowiseConfig' = InitialFlowiseConfig
    /\ newChatflow' = "empty"
    /\ testMessage' = <<>>
    /\ testResults' = NoResults
    /\ fmActions' = {}
    /\ fetchFlowiseData({})
    /\ UNCHANGED fmClicks

\* the effect's cleanup: clearInterval(interval)
FMUnmount ==
    /\ fmTimer' = 0
    /\ fmDone' = NoCall
    /\ UNCHANGED <<fmInst, chatflows, loading, flowiseConfig, newChatflow, testMessage,
                   testResults, fmCalls, fmActions, fmSeq, fmClicks>>

\* -------------------------------------------------------- ChatInterface
\* text is a sequence of characters
UpperCase ==
    <<"A", "B", "C", "D", "E", "F", "G", "H", "I", "J", "K", "L", "M",
      "N", "O", "P", "Q", "R", "S", "T", "U", "V", "W", "X", "Y", "Z", "Ü">>
LowerCase ==
    <<"a", "b", "c", "d", "e", "f", "g", "h", "i", "j", "k", "l", "m",
      "n", "o", "p", "q", "r", "s", "t", "u", "v", "w", "x", "y", "z", "ü">>

\* String.prototype.toLowerCase()
ToLowerCase(s) ==
    [k \in 1..Len(s) |->
        IF \E i \in 1..Len(UpperCase) : UpperCase[i] = s[k]
        THEN LowerCase[CHOOSE i \in 1..Len(UpperCase) : UpperCase[i] = s[k]]
        ELSE s[k]]

\* String.prototype.includes(sub)
Includes(s, sub) ==
    \E i \in 1..(Len(s) - Len(sub) + 1) : SubSeq(s, i, i + Len(sub) - 1) = sub

\* the keywords of the command check
KwImprove ==
    <<"i", "m", "p", "r", "o", "v", "e">>
KwOptimize ==
    <<"o", "p", "t", "i", "m", "i", "z", "e">>
KwStatus ==
    <<"s", "t", "a", "t", "u", "s">>
KwHealth ==
    <<"h", "e", "a", "l", "t", "h">>
KwFlowise ==
    <<"f", "l", "o", "w", "i", "s", "e">>
KwWorkflow ==
    <<"w", "o", "r", "k", "f", "l", "o", "w">>
KwChatflows ==
    <<"c", "h", "a", "t", "f", "l", "o", "w", "s">>

\* the endpoints the handler chooses from
LlmFeedback ==
    <<"/", "a", "p", "i", "/", "l", "e", "a", "r", "n", "i", "n", "g", "/", "l", "l", "m",
      "-", "f", "e", "e", "d", "b", "a", "c", "k">>
AutonomousImprovement ==
    <<"/", "a", "p", "i", "/", "l", "e", "a", "r", "n", "i", "n", "g", "/", "a", "u", "t",
      "o", "n", "o", "m", "o", "u", "s", "-", "i", "m", "p", "r", "o", "v", "e", "m", "e",
      "n", "t">>
AiStatus ==
    <<"/", "a", "p", "i", "/", "a", "i", "/", "s", "t", "a", "t", "u", "s">>
FlowiseChatflows ==
    <<"/", "a", "p", "i", "/", "f", "l", "o", "w", "i", "s", "e", "/", "c", "h", "a", "t",
      "f", "l", "o", "w", "s">>

\* the commands of quickActions
QuickStatus ==
    <<"Z", "e", "i", "g", "e", " ", "m", "i", "r", " ", "d", "e", "n", " ", "a", "k", "t",
      "u", "e", "l", "l", "e", "n", " ", "S", "y", "s", "t", "e", "m", "s", "t", "a", "t",
      "u", "s">>
QuickImprove ==
    <<"S", "t", "a", "r", "t", "e", " ", "e", "i", "n", "e", " ", "a", "u", "t", "o", "n",
      "o", "m", "e", " ", "S", "e", "l", "b", "s", "t", "v", "e", "r", "b", "e", "s", "s",
      "e", "r", "u", "n", "g">>
QuickFlowise ==
    <<"Ü", "b", "e", "r", "p", "r", "ü", "f", "e", " ", "F", "l", "o", "w", "i", "s", "e",
      " ", "W", "o", "r", "k", "f", "l", "o", "w", "s">>
QuickLearning ==
    <<"Z", "e", "i", "g", "e", " ", "m", "i", "r", " ", "d", "e", "n", " ", "a", "k", "t",
      "u", "e", "l", "l", "e", "n", " ", "L", "e", "r", "n", "f", "o", "r", "t", "s", "c",
      "h", "r", "i", "t", "t">>

\* texts typed by hand: blanks only, two keywords of different rank in mixed case
TypedBlank ==
    <<" ", " ">>
TypedOptimizeStatus ==
    <<"O", "p", "t", "i", "m", "i", "z", "e", " ", "s", "t", "a", "t", "u", "s">>
TypedHealthWorkflow ==
    <<"H", "E", "A", "L", "T", "H", " ", "o", "f", " ", "w", "o", "r", "k", "f", "l", "o",
      "w">>
TypedFlowiseImprove ==
    <<"f", "l", "o", "w", "i", "s", "e", " ", "I", "M", "P", "R", "O", "V", "E">>

Texts ==
    {<<>>, TypedBlank, QuickStatus, QuickImprove, QuickFlowise, QuickLearning,
     TypedOptimizeStatus, TypedHealthWorkflow, TypedFlowiseImprove}

QuickCommands == {QuickStatus, QuickImprove, QuickFlowise, QuickLearning}

Message(type, status, template, arg, text) ==
    [type |-> type, status |-> status, template |-> template, arg |-> arg, text |-> text]

\* the ids of the messages, doubled: Date.now(), Date.now() + 0.5, Date.now() + 1
UserId(t) == 2 * t
SetupId(t) == 2 * t + 1
BotId(t) == 2 * t + 2
\* id: 1 of the initial message
InitialIds == <<2 * 1>>

\* useState initial value of messages
InitialMessages == <<Message("system", "success", "init", "none", <<>>)>>

\* bodies of check-and-setup: status and setup_result?.status
SetupBodies ==
    {BadJson} \cup {[parses |-> TRUE, status |-> "other", result |-> "absent"]}
              \cup {[parses |-> TRUE, status |-> "setup_attempted", result |-> s] :
                       s \in {"absent", "success", "failed"}}
\* a message that includes 'No valid chat completion endpoints found'
NoValidEndpoints == "No valid chat completion endpoints found: M"
\* bodies of the main request: the error and message fields
\* and, for an array of n elements, its length
MainBodies ==
    {BadJson} \cup {[parses |-> TRUE, error |-> e, message |-> m,
                     hasLength |-> FALSE, length |-> 0] :
                       e \in {"absent", "E"}, m \in {"absent", "M", NoValidEndpoints}}
              \cup {[parses |-> TRUE, error |-> "absent", message |-> "absent",
                     hasLength |-> TRUE, length |-> n] : n \in 0..MaxFlows}
\* a fetch is rejected, or fulfilled with a 2xx or non-2xx response whose body is
\* then read by await response.json() (read whatever response.ok is)
ChatReplies(Bodies) ==
    {[r |-> "rejected"]} \cup {[r |-> s, body |-> b] : s \in {"ok", "non2xx"}, b \in Bodies}

NoSend == [id |-> 0, failed |-> FALSE, raw |-> {}, pc |-> "none", mainRequests |-> 0]

chatMounted == activeTab = "chat"

\* onChange of the input (disabled while isLoading) and onClick of a quick action
SetInputValue(text) ==
    /\ chatMounted
    /\ text # inputValue
    /\ text \in QuickCommands \/ ~isLoading
    /\ inputValue' = text
    /\ chDone' = NoSend
    /\ UNCHANGED <<shVars, appVars, visit, activeTab, smVars, fmVars, chInst, messages, isLoading, chSends,
                   chSeq, chLimit, msgIds, now>>

\* the clock moves on by a millisecond
ClockTick ==
    /\ now < FirstMs + MaxTicks
    /\ now' = now + 1
    /\ chDone' = NoSend
    /\ UNCHANGED <<shVars, appVars, visit, activeTab, smVars, fmVars, chInst, messages,
                   inputValue, isLoading, chSends, chSeq, chLimit, msgIds>>

\* a handler whose early return tests the input only
handleSendMessageWhileLoading ==
    /\ chatMounted
    /\ ~TrimIsEmpty(inputValue)
    /\ chSeq < chLimit
    /\ messages' = Append(messages, Message("user", "sent", "input", "none", inputValue))
    /\ msgIds' = Append(msgIds, UserId(now))
    /\ inputValue' = <<>>
    /\ isLoading' = TRUE
    /\ chSends' = chSends \cup
           {[id |-> chSeq + 1, inputValue |-> inputValue, pc |-> "setup",
             endpoint |-> <<>>, method |-> "none", body |-> "none",
             setupRequests |-> 1, mainRequests |-> 0, setupStatus |-> "none"]}
    /\ chSeq' = chSeq + 1
    /\ chDone' = NoSend
    /\ UNCHANGED <<shVars, appVars, visit, activeTab, smVars, fmVars, chInst, chLimit, now>>

\* handleSendMessage up to its first await: the user message is appended, the
\* input cleared, isLoading set and check-and-setup requested
handleSendMessage ==
    /\ chatMounted
    /\ ~(TrimIsEmpty(inputValue) \/ isLoading)
    /\ chSeq < chLimit
    /\ messages' = Append(messages, Message("user", "sent", "input", "none", inputValue))
    /\ msgIds' = Append(msgIds, UserId(now))
    /\ inputValue' = <<>>
    /\ isLoading' = TRUE
    /\ chSends' = chSends \cup
           {[id |-> chSeq + 1, inputValue |-> inputValue, pc |-> "setup",
             endpoint |-> <<>>, method |-> "none", body |-> "none",
             setupRequests |-> 1, mainRequests |-> 0, setupStatus |-> "none"]}
    /\ chSeq' = chSeq + 1
    /\ chDone' = NoSend
    /\ UNCHANGED <<shVars, appVars, visit, activeTab, smVars, fmVars, chInst, chLimit, now>>

\* a command check that tests status and health first
SelectEndpointStatusFirst(text) ==
    IF Includes(ToLowerCase(text), KwStatus) \/ Includes(ToLowerCase(text), KwHealth)
    THEN [endpoint |-> AiStatus, requestData |-> "empty"]
    ELSE IF Includes(ToLowerCase(text), KwImprove) \/ Includes(ToLowerCase(text), KwOptimize)
    THEN [endpoint |-> AutonomousImprovement, requestData |-> "trigger_context_timestamp"]
    ELSE IF Includes(ToLowerCase(text), KwFlowise) \/ Includes(ToLowerCase(text), KwWorkflow)
    THEN [endpoint |-> FlowiseChatflows, requestData |-> "empty"]
    ELSE [endpoint |-> LlmFeedback, requestData |-> "message_type_timestamp"]

\* the command check (lines 71 to 92)
SelectEndpoint(text) ==
    IF Includes(ToLowerCase(text), KwImprove) \/ Includes(ToLowerCase(text), KwOptimize)
    THEN [endpoint |-> AutonomousImprovement, requestData |-> "trigger_context_timestamp"]
    ELSE IF Includes(ToLowerCase(text), KwStatus) \/ Includes(ToLowerCase(text), KwHealth)
    THEN [endpoint |-> AiStatus, requestData |-> "empty"]
    ELSE IF Includes(ToLowerCase(text), KwFlowise) \/ Includes(ToLowerCase(text), KwWorkflow)
    THEN [endpoint |-> FlowiseChatflows, requestData |-> "empty"]
    ELSE [endpoint |-> LlmFeedback, requestData |-> "message_type_timestamp"]

\* method: endpoint.includes('status') || endpoint.includes('chatflows') ? 'GET' : 'POST'
MethodOf(endpoint) ==
    IF Includes(endpoint, KwStatus) \/ Includes(endpoint, KwChatflows) THEN "GET" ELSE "POST"

\* body: the same test ? undefined : JSON.stringify(requestData)
BodyOf(endpoint, requestData) ==
    IF Includes(endpoint, KwStatus) \/ Includes(endpoint, KwChatflows) THEN "undefined"
    ELSE requestData

\* a send that returns with the loading flag still set
FinallySendKeepsLoading(s, failed, raw) ==
    /\ chSends' = chSends \ {s}
    /\ chDone' = [id |-> s.id, failed |-> failed, raw |-> raw, pc |-> s.pc,
                  mainRequests |-> s.mainRequests]
    /\ UNCHANGED <<inputValue, isLoading, chSeq, chLimit, now>>

\* finally: setIsLoading(false)
FinallySend(s, failed, raw) ==
    /\ chSends' = chSends \ {s}
    /\ isLoading' = FALSE
    /\ chDone' = [id |-> s.id, failed |-> failed, raw |-> raw, pc |-> s.pc,
                  mainRequests |-> s.mainRequests]
    /\ UNCHANGED <<inputValue, chSeq, chLimit, now>>

\* catch: a bot message 'Verbindungsfehler: ${error.message}. ...' with status 'error'
CatchSend(s) ==
    /\ messages' = Append(messages,
                          Message("bot", "error", "Verbindungsfehler", "error.message", <<>>))
    /\ msgIds' = Append(msgIds, BotId(now))
    /\ FinallySend(s, TRUE, {"error.message"})

\* the setup text as a bot message
SetupMessageAsBot(body) ==
    Message("bot", IF body.result = "success" THEN "success" ELSE "warning",
            "AI-System wird automatisch eingerichtet",
            IF body.result = "absent" THEN "In Bearbeitung" ELSE body.result, <<>>)

\* the system message of an attempted setup
SetupMessage(body) ==
    Message("system", IF body.result = "success" THEN "success" ELSE "warning",
            "AI-System wird automatisch eingerichtet",
            IF body.result = "absent" THEN "In Bearbeitung" ELSE body.result, <<>>)

\* after await fetch(check-and-setup) and await setupResponse.json(): the setup
\* message if setup was attempted, then the main request is issued
SetupReply(s, reply) ==
    /\ s.pc = "setup"
    /\ IF reply.r = "rejected" \/ ~reply.body.parses THEN CatchSend(s)
       ELSE /\ messages' = IF reply.body.status = "setup_attempted"
                           THEN Append(messages, SetupMessage(reply.body))
                           ELSE messages
            /\ msgIds' = IF reply.body.status = "setup_attempted"
                         THEN Append(msgIds, SetupId(now))
                         ELSE msgIds
            /\ LET sel == SelectEndpoint(s.inputValue)
               IN  chSends' = (chSends \ {s}) \cup
                       {[s EXCEPT !.pc = "main",
                                  !.endpoint = sel.endpoint,
                                  !.method = MethodOf(sel.endpoint),
                                  !.body = BodyOf(sel.endpoint, sel.requestData),
                                  !.mainRequests = s.mainRequests + 1,
                                  !.setupStatus = reply.body.status]}
            /\ chDone' = NoSend
            /\ UNCHANGED <<inputValue, isLoading, chSeq, chLimit, now>>
    /\ UNCHANGED <<shVars, appVars, visit, activeTab, smVars, fmVars, chInst>>

\* the text of a 2xx response, by endpoint (lines 113 to 130)
SuccessTemplate(endpoint) ==
    IF Includes(endpoint, KwStatus) THEN "Systemstatus"
    ELSE IF Includes(endpoint, KwChatflows) THEN "Flowise Status"
    ELSE IF endpoint = AutonomousImprovement THEN "Selbstverbesserung"
    ELSE "Feedback verarbeitet"

\* data.length ? `${data.length} Chatflows gefunden` : 'Keine Chatflows verfügbar'
ChatflowsText(data) ==
    IF data.hasLength /\ data.length # 0
    THEN ToString(data.length) \o " Chatflows gefunden"
    ELSE "Keine Chatflows verfügbar"

\* what the text of a 2xx response takes from the body
SuccessArg(endpoint, data) ==
    IF SuccessTemplate(endpoint) = "Flowise Status" THEN ChatflowsText(data) ELSE "data"

\* an error text that ignores the response body
ErrorTextGeneric(data) == "Unbekannter Fehler"

\* data.error || data.message || 'Unbekannter Fehler'
ErrorText(data) ==
    IF data.error # "absent" THEN data.error
    ELSE IF data.message # "absent" THEN data.message
    ELSE "Unbekannter Fehler"

\* the text of a non-2xx response (lines 133 to 139)
ErrorMessage(data) ==
    IF data.message = NoValidEndpoints
    THEN Message("bot", "error", "KI-System nicht verfügbar", data.message, <<>>)
    ELSE Message("bot", "error", "Fehler", ErrorText(data), <<>>)

\* after await fetch(endpoint) and await response.json(): botResponse is appended
MainReply(s, reply) ==
    /\ s.pc = "main"
    /\ IF reply.r = "rejected" \/ ~reply.body.parses THEN CatchSend(s)
       ELSE IF reply.r = "ok"
       THEN /\ messages' = Append(messages, Message("bot", "success",
                                                    SuccessTemplate(s.endpoint),
                                                    SuccessArg(s.endpoint, reply.body),
                                                    <<>>))
            /\ msgIds' = Append(msgIds, BotId(now))
            /\ FinallySend(s, FALSE, {})
       ELSE /\ messages' = Append(messages, ErrorMessage(reply.body))
            /\ msgIds' = Append(msgIds, BotId(now))
            /\ FinallySend(s, TRUE, {reply.body.error, reply.body.message} \ {"absent"})
    /\ UNCHANGED <<shVars, appVars, visit, activeTab, smVars, fmVars, chInst>>

\* a panel that comes back with the messages it had
ChatMountKeepsMessages ==
    /\ chInst < MaxMounts
    /\ chInst' = chInst + 1
    /\ inputValue' = <<>>
    /\ isLoading' = FALSE
    /\ chSends' = {}
    /\ chDone' = NoSend
    /\ UNCHANGED <<chSeq, messages, chLimit, msgIds, now>>

\* a new instance: useState initial values.  A call of the replaced instance is
\* no longer followed.
ChatMount ==
    /\ chInst < MaxMounts
    /\ chInst' = chInst + 1
    /\ messages' = InitialMessages
    /\ msgIds' = InitialIds
    /\ inputValue' = <<>>
    /\ isLoading' = FALSE
    /\ chSends' = {}
    /\ chDone' = NoSend
    /\ UNCHANGED <<chSeq, chLimit, now>>

\* the panel has no effect cleanup
ChatUnmount ==
    /\ chDone' = NoSend
    /\ UNCHANGED <<chInst, messages, inputValue, isLoading, chSends, chSeq, chLimit,
                   msgIds, now>>


\* -------------------------------------------------------- shell scripts
\* setup.sh, start.sh and stop.sh run under `set -e`: a command that fails outside
\* an `if` condition or a `||` list ends the script with that command's status
Scripts == {"setup.sh", "start.sh", "stop.sh"}

NoScript ==
    /\ shScript = "none"
    /\ shPc = "none"
    /\ shTools = [docker |-> TRUE, compose |-> TRUE]
    /\ shFiles = [envLocal |-> "absent", composeYaml |-> TRUE]
    /\ shOut = <<>>
    /\ shExit = "running"

\* the script goes on to its next command
Goto(pc, events) ==
    /\ shPc' = pc
    /\ shOut' = shOut \o events
    /\ shExit' = "running"

\* exit, or the end of the script
Exit(status, events) ==
    /\ shPc' = "end"
    /\ shOut' = shOut \o events
    /\ shExit' = status

\* a command that set -e watches: the script goes on only if it succeeded
Run(cmd, ok, pc, events) ==
    IF ok THEN Goto(pc, <<cmd>> \o events) ELSE Exit("nonzero", <<cmd>>)

At(script, pc) == shScript = script /\ shPc = pc /\ shExit = "running"

AppIdle == UNCHANGED <<visit, activeTab, smVars, fmVars, chVars, appVars>>

\* setup.sh lines 32 to 36: if ! command -v docker
SetupCheckDocker ==
    /\ At("setup.sh", "check_docker")
    /\ IF shTools.docker THEN Goto("check_compose", <<>>)
       ELSE Exit("1", <<"error: Docker is not installed">>)
    /\ UNCHANGED <<shScript, shTools, shFiles>>
    /\ AppIdle

\* setup.sh lines 38 to 44: if ! command -v docker-compose
SetupCheckCompose ==
    /\ At("setup.sh", "check_compose")
    /\ IF shTools.compose THEN Goto("mkdir", <<"info: Docker and Docker Compose are available">>)
       ELSE Exit("1", <<"error: Docker Compose is not installed">>)
    /\ UNCHANGED <<shScript, shTools, shFiles>>
    /\ AppIdle

\* setup.sh lines 46 to 52: mkdir -p ...
SetupMakeDirs(ok) ==
    /\ At("setup.sh", "mkdir")
    /\ Run("mkdir", ok, "chmod", <<"success: Directories created">>)
    /\ UNCHANGED <<shScript, shTools, shFiles>>
    /\ AppIdle

\* setup.sh lines 54 to 60: chmod ...
SetupSetPermissions(ok) ==
    /\ At("setup.sh", "chmod")
    /\ Run("chmod", ok, "copy_env", <<"success: Permissions set">>)
    /\ UNCHANGED <<shScript, shTools, shFiles>>
    /\ AppIdle

\* a copy without the test for an existing .env.local
SetupCopyEnvAlways(ok) ==
    /\ At("setup.sh", "copy_env")
    /\ Run("cp .env .env.local", ok, "build",
           <<"warning: Please review and modify .env.local">>)
    /\ shFiles' = [shFiles EXCEPT !.envLocal = IF ok THEN "copy of .env" ELSE @]
    /\ UNCHANGED <<shScript, shTools>>
    /\ AppIdle

\* setup.sh lines 62 to 67: if [ ! -f .env.local ]; then cp .env .env.local; fi
SetupCopyEnv(ok) ==
    /\ At("setup.sh", "copy_env")
    /\ IF shFiles.envLocal # "absent"
       THEN Goto("build", <<>>) /\ UNCHANGED shFiles
       ELSE /\ Run("cp .env .env.local", ok, "build",
                   <<"warning: Please review and modify .env.local">>)
            /\ shFiles' = [shFiles EXCEPT !.envLocal = IF ok THEN "copy of .env" ELSE @]
    /\ UNCHANGED <<shScript, shTools>>
    /\ AppIdle

\* setup.sh lines 69 to 71: docker-compose build --no-cache
SetupBuild(ok) ==
    /\ At("setup.sh", "build")
    /\ Run("docker-compose build", ok, "up", <<>>)
    /\ UNCHANGED <<shScript, shTools, shFiles>>
    /\ AppIdle

\* setup.sh lines 73 to 78: docker-compose up -d; sleep 30
SetupUp(ok) ==
    /\ At("setup.sh", "up")
    /\ Run("docker-compose up", ok, "health_backend", <<"sleep 30">>)
    /\ UNCHANGED <<shScript, shTools, shFiles>>
    /\ AppIdle

\* if curl -f url; then print_success ...; else print_warning ...; fi
HealthCheck(service, ok, pc) ==
    Goto(pc, <<"curl " \o service,
               (IF ok THEN "success: " ELSE "warning: ") \o service>>)

\* setup.sh lines 83 to 88
SetupHealthBackend(ok) ==
    /\ At("setup.sh", "health_backend")
    /\ HealthCheck("backend", ok, "health_frontend")
    /\ UNCHANGED <<shScript, shTools, shFiles>>
    /\ AppIdle

\* setup.sh lines 90 to 95
SetupHealthFrontend(ok) ==
    /\ At("setup.sh", "health_frontend")
    /\ HealthCheck("frontend", ok, "health_flowise")
    /\ UNCHANGED <<shScript, shTools, shFiles>>
    /\ AppIdle

\* setup.sh lines 97 to 102
SetupHealthFlowise(ok) ==
    /\ At("setup.sh", "health_flowise")
    /\ HealthCheck("flowise", ok, "pull")
    /\ UNCHANGED <<shScript, shTools, shFiles>>
    /\ AppIdle

\* a pull without its `|| print_warning`, left to set -e
SetupPullModelStrict(ok) ==
    /\ At("setup.sh", "pull")
    /\ Run("ollama pull", ok, "access_points", <<"success: Setup completed">>)
    /\ UNCHANGED <<shScript, shTools, shFiles>>
    /\ AppIdle

\* setup.sh lines 104 to 108: docker-compose exec ... ollama pull llama3 || print_warning
SetupPullModel(ok) ==
    /\ At("setup.sh", "pull")
    /\ Goto("access_points",
            <<"ollama pull">> \o (IF ok THEN <<>> ELSE <<"warning: Failed to pull LLM model">>)
                \o <<"success: Setup completed">>)
    /\ UNCHANGED <<shScript, shTools, shFiles>>
    /\ AppIdle

\* setup.sh lines 110 to 125: the access points, then the end of the script
SetupAccessPoints ==
    /\ At("setup.sh", "access_points")
    /\ Exit("0", <<"access points">>)
    /\ UNCHANGED <<shScript, shTools, shFiles>>
    /\ AppIdle

\* a start that goes on without the compose file
StartCheckFileIgnored ==
    /\ At("start.sh", "check_file")
    /\ Goto("up", <<>>)
    /\ UNCHANGED <<shScript, shTools, shFiles>>
    /\ AppIdle

\* start.sh lines 21 to 25: if [ ! -f docker-compose.yaml ]
StartCheckFile ==
    /\ At("start.sh", "check_file")
    /\ IF shFiles.composeYaml THEN Goto("up", <<>>)
       ELSE Exit("1", <<"error: docker-compose.yaml not found">>)
    /\ UNCHANGED <<shScript, shTools, shFiles>>
    /\ AppIdle

\* start.sh lines 27 to 33: docker-compose up -d; sleep 15
StartUp(ok) ==
    /\ At("start.sh", "up")
    /\ Run("docker-compose up", ok, "ps", <<"sleep 15">>)
    /\ UNCHANGED <<shScript, shTools, shFiles>>
    /\ AppIdle

\* start.sh lines 35 to 43: docker-compose ps; print_success "... started!"
StartShowStatus(ok) ==
    /\ At("start.sh", "ps")
    /\ IF ok THEN Exit("0", <<"docker-compose ps", "success: started!">>)
       ELSE Exit("nonzero", <<"docker-compose ps">>)
    /\ UNCHANGED <<shScript, shTools, shFiles>>
    /\ AppIdle

\* stop.sh lines 21 to 25: docker-compose down; print_success "... stopped!"
StopDown(ok) ==
    /\ At("stop.sh", "down")
    /\ IF ok THEN Exit("0", <<"docker-compose down", "success: stopped!">>)
       ELSE Exit("nonzero", <<"docker-compose down">>)
    /\ UNCHANGED <<shScript, shTools, shFiles>>
    /\ AppIdle

\* the first command of each script
FirstCommand(script) ==
    IF script = "setup.sh" THEN "check_docker"
    ELSE IF script = "start.sh" THEN "check_file"
    ELSE "down"

\* ------------------------------------------------------------------ App
\* useState initial values and the status request of the mount effect
InitialApp ==
    /\ systemStatus = "loading"
    /\ sidebarOpen = FALSE
    /\ statusReq = "pending"

\* a step of a panel: its step records of the other panels are cleared
PanelsIdle ==
    /\ smDone' = NoPoll
    /\ fmDone' = NoCall
    /\ chDone' = NoSend
    /\ UNCHANGED <<visit, activeTab, shVars>>
    /\ UNCHANGED <<smInst, smTimer, systemData, heap, smPolls, smSeq, smLimit, lastUpdate>>
    /\ UNCHANGED <<fmInst, fmTimer, chatflows, loading, flowiseConfig, newChatflow,
                   testMessage, testResults, fmCalls, fmActions, fmSeq, fmClicks>>
    /\ UNCHANGED <<chInst, messages, inputValue, isLoading, chSends, chSeq, chLimit,
                   msgIds, now>>

\* a status handler that takes any response for a healthy backend
StatusReplyAnyResponse(r) ==
    /\ statusReq = "pending"
    /\ statusReq' = r
    /\ systemStatus' = IF r = "rejected" THEN "error" ELSE "active"
    /\ UNCHANGED sidebarOpen
    /\ PanelsIdle

\* .then(res => res.ok ? setSystemStatus('active') : setSystemStatus('error'))
\* .catch(() => setSystemStatus('error'))
StatusReply(r) ==
    /\ statusReq = "pending"
    /\ statusReq' = r
    /\ systemStatus' = IF r = "ok" THEN "active" ELSE "error"
    /\ UNCHANGED sidebarOpen
    /\ PanelsIdle

\* the menu button: setSidebarOpen(!sidebarOpen)
ToggleSidebar ==
    /\ sidebarOpen' = ~sidebarOpen
    /\ UNCHANGED <<systemStatus, statusReq>>
    /\ PanelsIdle

\* the overlay, rendered while sidebarOpen: setSidebarOpen(false)
CloseSidebar ==
    /\ sidebarOpen
    /\ sidebarOpen' = FALSE
    /\ UNCHANGED <<systemStatus, statusReq>>
    /\ PanelsIdle

\* renderContent: the component the switch returns
renderContent ==
    CASE activeTab = "dashboard" -> "SystemMonitor"
      [] activeTab = "chat" -> "ChatInterface"
      [] activeTab = "flowise" -> "FlowiseManager"
      [] activeTab = "ethics" -> "EthicsPanel"
      [] activeTab = "security" -> "SecurityPanel"
      [] activeTab = "improvement" -> "ImprovementPanel"
      [] activeTab = "services" -> "ServicesPanel"
      [] OTHER -> "SystemMonitor"

\* a navigation click that leaves the sidebar as it is
NavigateKeepsSidebar(tab) ==
    /\ UNCHANGED sidebarOpen
    /\ activeTab' = tab
    /\ UNCHANGED <<visit, shVars, systemStatus, statusReq>>
    /\ IF tab = activeTab THEN smDone' = NoPoll /\ UNCHANGED <<smInst, smTimer, systemData,
                                    heap, smPolls, smSeq, smLimit, lastUpdate>>
       ELSE IF activeTab = "dashboard" THEN SMUnmount
       ELSE IF tab = "dashboard" THEN SMMount
       ELSE UNCHANGED smVars
    /\ IF tab = activeTab THEN fmDone' = NoCall /\ UNCHANGED <<fmInst, fmTimer, chatflows,
                                    loading, flowiseConfig, newChatflow, testMessage,
                                    testResults, fmCalls, fmActions, fmSeq, fmClicks>>
       ELSE IF activeTab = "flowise" THEN FMUnmount
       ELSE IF tab = "flowise" THEN FMMount
       ELSE UNCHANGED fmVars
    /\ IF tab = activeTab THEN chDone' = NoSend /\ UNCHANGED <<chInst, messages, inputValue,
                                    isLoading, chSends, chSeq, chLimit, msgIds, now>>
       ELSE IF activeTab = "chat" THEN ChatUnmount
       ELSE IF tab = "chat" THEN ChatMount
       ELSE UNCHANGED chVars

\* nav onClick: setActiveTab(item.id); setSidebarOpen(false); renderContent
\* then unmounts the panel of the old tab and mounts the panel of the new one
Navigate(tab) ==
    /\ sidebarOpen' = FALSE
    /\ activeTab' = tab
    /\ UNCHANGED <<visit, shVars, systemStatus, statusReq>>
    /\ IF tab = activeTab THEN smDone' = NoPoll /\ UNCHANGED <<smInst, smTimer, systemData,
                                    heap, smPolls, smSeq, smLimit, lastUpdate>>
       ELSE IF activeTab = "dashboard" THEN SMUnmount
       ELSE IF tab = "dashboard" THEN SMMount
       ELSE UNCHANGED smVars
    /\ IF tab = activeTab THEN fmDone' = NoCall /\ UNCHANGED <<fmInst, fmTimer, chatflows,
                                    loading, flowiseConfig, newChatflow, testMessage,
                                    testResults, fmCalls, fmActions, fmSeq, fmClicks>>
       ELSE IF activeTab = "flowise" THEN FMUnmount
       ELSE IF tab = "flowise" THEN FMMount
       ELSE UNCHANGED fmVars
    /\ IF tab = activeTab THEN chDone' = NoSend /\ UNCHANGED <<chInst, messages, inputValue,
                                    isLoading, chSends, chSeq, chLimit, msgIds, now>>
       ELSE IF activeTab = "chat" THEN ChatUnmount
       ELSE IF tab = "chat" THEN ChatMount
       ELSE UNCHANGED chVars

\* ------------------------------------------------------------ behaviours
\* the panel was never rendered
IdleSM ==
    /\ smInst = 0
    /\ smTimer = 0
    /\ systemData = InitialSystemData
    /\ heap = [o \in ObjIds |-> EmptyServices]
    /\ smPolls = {}
    /\ smSeq = 0
    /\ smLimit = MaxPolls
    /\ lastUpdate = 0
    /\ smDone = NoPoll

\* the panel's first instance right after its mount effect ran
MountedSM ==
    /\ smInst = 1
    /\ smTimer = SMInterval
    /\ systemData = InitialSystemData
    /\ heap = [o \in ObjIds |-> EmptyServices]
    /\ smPolls = {[id |-> 1, kind |-> "mount",
                   systemData |-> InitialSystemData, pc |-> "allSettled",
                   ok |-> NoneOk, newData |-> [status |-> "loading", learning |-> "empty"]]}
    /\ smSeq = 1
    /\ smLimit = MaxPolls
    /\ lastUpdate = 0
    /\ smDone = NoPoll

IdleFM ==
    /\ fmInst = 0
    /\ fmTimer = 0
    /\ chatflows = 0
    /\ loading = TRUE
    /\ flowiseConfig = InitialFlowiseConfig
    /\ newChatflow = "empty"
    /\ testMessage = <<>>
    /\ testResults = NoResults
    /\ fmCalls = {}
    /\ fmActions = {}
    /\ fmSeq = 0
    /\ fmClicks = 0
    /\ fmDone = NoCall

MountedFM ==
    /\ fmInst = 1
    /\ fmTimer = FMInterval
    /\ chatflows = 0
    /\ loading = TRUE
    /\ flowiseConfig = InitialFlowiseConfig
    /\ newChatflow = "empty"
    /\ testMessage = <<>>
    /\ testResults = NoResults
    /\ fmCalls = {[id |-> 1, pc |-> "config", non2xx |-> FALSE]}
    /\ fmActions = {}
    /\ fmSeq = 1
    /\ fmClicks = 0
    /\ fmDone = NoCall

IdleChat ==
    /\ chInst = 0
    /\ messages = InitialMessages
    /\ msgIds = InitialIds
    /\ now = FirstMs
    /\ chLimit = MaxSends
    /\ inputValue = <<>>
    /\ isLoading = FALSE
    /\ chSends = {}
    /\ chSeq = 0
    /\ chDone = NoSend

MountedChat ==
    /\ chInst = 1
    /\ messages = InitialMessages
    /\ msgIds = InitialIds
    /\ now = FirstMs
    /\ chLimit = MaxSends
    /\ inputValue = <<>>
    /\ isLoading = FALSE
    /\ chSends = {}
    /\ chSeq = 0
    /\ chDone = NoSend

\* the App with the panel of this behaviour on screen: the dashboard is the
\* first tab, the other panels are one click away
Init ==
    /\ visit \in DynamicTabs
    /\ activeTab = visit
    /\ IF visit = "dashboard" THEN MountedSM ELSE IdleSM
    /\ IF visit = "flowise" THEN MountedFM ELSE IdleFM
    /\ IF visit = "chat" THEN MountedChat ELSE IdleChat
    /\ NoScript
    /\ InitialApp

NextSM ==
    \/ SMTick
    \/ SMRefresh
    \/ \E p \in smPolls, res \in [Services -> Settled] : AllSettled(p, res)
    \/ \E p \in smPolls, body \in StatusBodies : StatusJson(p, body)
    \/ \E p \in smPolls, body \in LearningBodies : LearningJson(p, body)
    \/ \E p \in smPolls, body \in FlowiseBodies : FlowiseJson(p, body)

NextFM ==
    \/ FMTick
    \/ FMRefresh
    \/ \E text \in TestMessages : SetTestMessage(text)
    \/ SetNewChatflow
    \/ handleCreateChatflow
    \/ \E f \in 1..MaxFlows : handleTestChatflow(f)
    \/ \E f \in 1..MaxFlows : handleOptimizeChatflow(f)
    \/ handleAutoOptimize
    \/ \E c \in fmCalls, reply \in Replies(ConfigBodies) : ConfigReply(c, reply)
    \/ \E c \in fmCalls, reply \in Replies(ChatflowBodies) : ChatflowsReply(c, reply)
    \/ \E c \in fmCalls, reply \in Replies(TestBodies) : TestReply(c, reply)
    \/ \E a \in fmActions, r \in Settled : CreateReply(a, r)
    \/ \E a \in fmActions, reply \in Replies(ResultBodies) : TestChatflowReply(a, reply)
    \/ \E a \in fmActions, reply \in Replies(ResultBodies) : OptimizeReply(a, reply)

NextChat ==
    \/ \E text \in Texts : SetInputValue(text)
    \/ handleSendMessage
    \/ \E s \in chSends, reply \in ChatReplies(SetupBodies) : SetupReply(s, reply)
    \/ \E s \in chSends, reply \in ChatReplies(MainBodies) : MainReply(s, reply)

Next ==
    \/ \E tab \in {AwayTab, visit} : Navigate(tab)
    \/ NextSM
    \/ NextFM
    \/ NextChat

Spec == Init /\ [][Next]_vars

\* the App from its first render: the dashboard tab is active and the status
\* request is in flight.  A behaviour named "shell" clicks through all seven
\* tabs while the requests of the panels stay unanswered and their timers do
\* not fire; a behaviour named after a panel follows that panel
InitApp ==
    /\ visit \in {"shell", "dashboard", "chat"}
    /\ activeTab = "dashboard"
    /\ MountedSM
    /\ IdleFM
    /\ IdleChat
    /\ NoScript
    /\ InitialApp

NextApp ==
    \/ \E r \in Settled : StatusReply(r)
    \/ ToggleSidebar
    \/ CloseSidebar
    \/ \E tab \in (IF visit = "shell" THEN Tabs ELSE {AwayTab, visit}) : Navigate(tab)
    \/ visit = "dashboard" /\ NextSM
    \/ visit = "chat" /\ NextChat

SpecApp == InitApp /\ [][NextApp]_vars

\* the chat panel on screen, followed over MaxChatSends sends while the clock
\* runs; the user types blanks or clicks one of two quick actions
ChatTexts == {TypedBlank, QuickStatus, QuickImprove}

InitChat ==
    /\ visit = "chat"
    /\ activeTab = "chat"
    /\ IdleSM
    /\ IdleFM
    /\ chInst = 1
    /\ messages = InitialMessages
    /\ msgIds = InitialIds
    /\ now = FirstMs
    /\ chLimit = MaxChatSends
    /\ inputValue = <<>>
    /\ isLoading = FALSE
    /\ chSends = {}
    /\ chSeq = 0
    /\ chDone = NoSend
    /\ NoScript
    /\ InitialApp

NextChatClock ==
    \/ ClockTick
    \/ \E text \in ChatTexts : SetInputValue(text)
    \/ handleSendMessage
    \/ \E s \in chSends, reply \in ChatReplies(SetupBodies) : SetupReply(s, reply)
    \/ \E s \in chSends, reply \in ChatReplies(MainBodies) : MainReply(s, reply)

SpecChat == InitChat /\ [][NextChatClock]_vars

\* SystemMonitor after the mount poll and WindowCap - 2 manual refreshes, each
\* clicked after the one before had returned, every response 2xx with a body
\* that carries no status and no learning_insights
WarmPolls == WindowCap - 1
Range(a, b) == [k \in 1..(b - a + 1) |-> a + k - 1]

InitWarm ==
    /\ visit = "dashboard"
    /\ activeTab = visit
    /\ smInst = 1
    /\ smTimer = SMInterval
    /\ systemData = [status |-> "active", learning |-> "empty", services |-> 1,
                     performance |-> Range(1, WarmPolls)]
    /\ heap = [o \in ObjIds |-> IF o = 1 THEN [s \in Services |-> "online"]
                                ELSE EmptyServices]
    /\ smPolls = {}
    /\ smSeq = WarmPolls
    /\ smLimit = WarmPolls + MaxPolls
    /\ lastUpdate = WarmPolls
    /\ smDone = NoPoll
    /\ IdleFM
    /\ IdleChat
    /\ NoScript
    /\ InitialApp

NextWarm ==
    \/ \E tab \in {AwayTab, visit} : Navigate(tab)
    \/ NextSM

SpecWarm == InitWarm /\ [][NextWarm]_vars

\* a script is started in a working directory, the App is not open
InitScripts ==
    /\ visit = "none"
    /\ activeTab = "dashboard"
    /\ IdleSM
    /\ IdleFM
    /\ IdleChat
    /\ shScript \in Scripts
    /\ shPc = FirstCommand(shScript)
    /\ shTools \in [docker : BOOLEAN, compose : BOOLEAN]
    /\ shFiles \in [envLocal : {"absent", "user"}, composeYaml : BOOLEAN]
    /\ shOut = <<>>
    /\ shExit = "running"
    /\ InitialApp

NextScripts ==
    \/ SetupCheckDocker
    \/ SetupCheckCompose
    \/ \E ok \in BOOLEAN : SetupMakeDirs(ok)
    \/ \E ok \in BOOLEAN : SetupSetPermissions(ok)
    \/ \E ok \in BOOLEAN : SetupCopyEnv(ok)
    \/ \E ok \in BOOLEAN : SetupBuild(ok)
    \/ \E ok \in BOOLEAN : SetupUp(ok)
    \/ \E ok \in BOOLEAN : SetupHealthBackend(ok)
    \/ \E ok \in BOOLEAN : SetupHealthFrontend(ok)
    \/ \E ok \in BOOLEAN : SetupHealthFlowise(ok)
    \/ \E ok \in BOOLEAN : SetupPullModel(ok)
    \/ SetupAccessPoints
    \/ StartCheckFile
    \/ \E ok \in BOOLEAN : StartUp(ok)
    \/ \E ok \in BOOLEAN : StartShowStatus(ok)
    \/ \E ok \in BOOLEAN : StopDown(ok)

SpecScripts == InitScripts /\ [][NextScripts]_vars

\* ================================================================ claims

\* C1: after a poll that did not throw, each of backend, learning and flowise
\* is shown 'online' exactly when that poll's own request was fulfilled with a
\* 2xx response, and 'offline' otherwise.
C1_OwnRequestDecides ==
    (smDone.id # 0 /\ ~smDone.threw) =>
        \A s \in Services :
            ServiceStatus(s) = (IF smDone.ok[s] THEN "online" ELSE "offline")

\* C2: the performance list never holds more than 20 samples.
C2_AtMostTwentySamples == Len(systemData.performance) <= 20

\* a poll has pushed the oldest sample out of a full window
C2_Witness ==
    /\ Len(systemData.performance) = 20
    /\ systemData.performance[1] > 1
    /\ smDone.id = systemData.performance[20]

\* C3: every poll started by mount or by the timer that returns without an
\* exception appends its sample to the list shown before it returned and keeps
\* the last 20.
C3_RollingWindow ==
    [][(smDone'.id # 0 /\ ~smDone'.threw /\ smDone'.kind \in {"mount", "timer"}) =>
           systemData'.performance =
               SliceLast(Append(systemData.performance, smDone'.id), 20)]_vars

\* C4 as stated: every status on screen is 'online' or 'offline' (FlowiseManager
\* renders its badges only while loading is false).
C4_OnlineOrOffline ==
    /\ smMounted =>
           /\ \A s \in Services : ServiceStatus(s) \in {"online", "offline"}
           /\ LLMServiceStatus \in {"online", "offline"}
    /\ (fmMounted /\ ~loading) =>
           /\ FlowiseStatus \in {"online", "offline"}
           /\ LLMStatus \in {"online", "offline"}

\* the status and llm_status a config response can carry
ConfigStatuses == {b.status : b \in ConfigBodies \ {BadJson}}

\* C4 (amended): SystemMonitor shows Backend API, Lern-Engine and Flowise as
\* 'online' or 'offline' and LLM Service always as 'checking'; FlowiseManager
\* shows for Flowise 'checking', 'online', 'offline' or the status of the last
\* config response, and for LLM 'Prüfung...', 'online', 'offline' or the
\* llm_status of the last config response.
C4_ShownStatuses ==
    /\ smMounted =>
           /\ \A s \in Services : ServiceStatus(s) \in {"online", "offline"}
           /\ LLMServiceStatus = "checking"
    /\ (fmMounted /\ ~loading) =>
           /\ FlowiseStatus \in {"checking", "online", "offline"} \cup ConfigStatuses
           /\ LLMStatus \in {"Prüfung...", "online", "offline"} \cup ConfigStatuses

\* a refresh has returned and the badges on screen show the status and the
\* llm_status of the config response
C4_Witness ==
    /\ fmMounted
    /\ ~loading
    /\ fmDone.id # 0
    /\ FlowiseStatus = "other"
    /\ LLMStatus = "other"

\* C5: after a refresh in which the config request or the test-connection
\* request returned a non-2xx response, the Flowise status is 'offline'.
C5_Non2xxMeansOffline ==
    (fmDone.id # 0 /\ fmDone.non2xx) => FlowiseStatus = "offline"

\* the message a returning send has just appended
LastMessage == messages'[Len(messages')]

\* C6 as stated: a failing send appends exactly one bot message with status
\* 'error' whose content contains error.message or the error / message field
\* of the response body.
C6_RawErrorShown ==
    [][(chDone'.id # 0 /\ chDone'.failed) =>
           /\ Len(messages') = Len(messages) + 1
           /\ LastMessage.type = "bot"
           /\ LastMessage.status = "error"
           /\ LastMessage.arg \in chDone'.raw]_vars

\* C6 (amended): a failing send appends exactly one bot message with status
\* 'error' whose content contains error.message, or the error field of the
\* response body, else its message field, or, when the body has neither, the
\* fixed text 'Unbekannter Fehler'.
C6_ErrorShown ==
    [][(chDone'.id # 0 /\ chDone'.failed) =>
           /\ Len(messages') = Len(messages) + 1
           /\ LastMessage.type = "bot"
           /\ LastMessage.status = "error"
           /\ IF chDone'.raw = {} THEN LastMessage.arg = "Unbekannter Fehler"
              ELSE LastMessage.arg \in chDone'.raw]_vars

\* a send has failed on a non-2xx response and its bot message shows the
\* error field of the body
C6_Witness ==
    /\ chDone.id # 0
    /\ chDone.failed
    /\ messages[Len(messages)].status = "error"
    /\ messages[Len(messages)].arg = "E"

\* C7: no request is sent again: a chat send in flight has issued at most one
\* check-and-setup request and at most one main request, and a create, test,
\* optimize or auto-optimize handler in flight has issued exactly one request.
C7_NoRetry ==
    /\ \A s \in chSends : s.setupRequests <= 1 /\ s.mainRequests <= 1
    /\ \A a \in fmActions : a.requests = 1

\* a chatflow test has failed and its handler has returned: nothing is in flight
C7_Witness ==
    /\ fmActions = {}
    /\ \E f \in 1..MaxFlows : testResults[f] = "error"

\* C8: mounting a panel starts exactly one poll and arms its timer (5000 ms for
\* SystemMonitor, 30000 ms for FlowiseManager), no step starts more than one
\* poll, and while a panel is off screen its timer is cleared and starts no
\* poll (FlowiseManager polls then only from a returning handler).
C8_PollOnMountAndTick ==
    [][/\ (activeTab # "dashboard" /\ activeTab' = "dashboard") => smSeq' = smSeq + 1
       /\ (activeTab # "flowise" /\ activeTab' = "flowise") => fmSeq' = fmSeq + 1
       /\ smSeq' \in {smSeq, smSeq + 1}
       /\ fmSeq' \in {fmSeq, fmSeq + 1}
       /\ smTimer' = (IF activeTab' = "dashboard" THEN 5000 ELSE 0)
       /\ fmTimer' = (IF activeTab' = "flowise" THEN 30000 ELSE 0)
       /\ (activeTab # "dashboard" /\ activeTab' # "dashboard") => smSeq' = smSeq
       /\ (activeTab # "flowise" /\ activeTab' # "flowise") =>
              (fmSeq' = fmSeq \/ fmActions' # fmActions)]_vars

\* SystemMonitor was unmounted after a timer poll, with a poll still in flight
C8_Witness ==
    /\ activeTab # "dashboard"
    /\ smTimer = 0
    /\ smSeq >= 2
    /\ smPolls # {}

C10_EndpointPriority ==
    \A s \in chSends : s.pc = "main" =>
        LET t == ToLowerCase(s.inputValue)
            has(kw) == Includes(t, kw)
        IN  /\ s.endpoint =
                   IF has(KwImprove) \/ has(KwOptimize) THEN AutonomousImprovement
                   ELSE IF has(KwStatus) \/ has(KwHealth) THEN AiStatus
                   ELSE IF has(KwFlowise) \/ has(KwWorkflow) THEN FlowiseChatflows
                   ELSE LlmFeedback
            /\ s.method = IF s.endpoint \in {AiStatus, FlowiseChatflows} THEN "GET"
                          ELSE "POST"
            /\ s.method = "GET" => s.body = "undefined"
            /\ s.method = "POST" =>
                   s.body = IF s.endpoint = AutonomousImprovement
                            THEN "trigger_context_timestamp"
                            ELSE "message_type_timestamp"

\* a text with a keyword of the first and of the second rank is on its way to
\* the endpoint of the first
C10_Witness ==
    \E s \in chSends :
        /\ s.pc = "main"
        /\ s.inputValue = TypedOptimizeStatus
        /\ s.endpoint = AutonomousImprovement
        /\ s.method = "POST"
\* the script has run or printed ev
Has(ev) == \E i \in 1..Len(shOut) : shOut[i] = ev
\* wherever b is in the output, a is in it earlier
Follows(b, a) ==
    \A j \in 1..Len(shOut) : shOut[j] = b => \E i \in 1..(j - 1) : shOut[i] = a
Ended == shExit # "running"

\* C11: setup.sh runs the image build, then the service start, then the health
\* checks of backend, frontend and Flowise, in that order, and prints the
\* access points after them; a failed health check or a failed model pull only
\* warns and the script still ends with the access points, while a failed
\* build or start ends it without them.
C11_SetupSequence ==
    shScript = "setup.sh" =>
        /\ Follows("docker-compose up", "docker-compose build")
        /\ Follows("curl backend", "docker-compose up")
        /\ Follows("curl frontend", "curl backend")
        /\ Follows("curl flowise", "curl frontend")
        /\ Follows("access points", "curl flowise")
        /\ (Ended /\ Has("curl backend")) => (shExit = "0" /\ Has("access points"))
        /\ (Ended /\ shOut # <<>> /\ shOut[Len(shOut)] \in
                {"docker-compose build", "docker-compose up"}) =>
               (shExit = "nonzero" /\ ~Has("access points"))
        /\ shExit \in {"1", "nonzero"} => ~Has("access points")

\* the script has ended with the access points although a health check and the
\* model pull failed
C11_Witness ==
    /\ shScript = "setup.sh"
    /\ shExit = "0"
    /\ Has("warning: backend")
    /\ Has("warning: Failed to pull LLM model")
    /\ Has("access points")

\* C12: setup.sh performs its steps in the order of the installation guide:
\* create the directories, set permissions, build the images, start the
\* services, download the LLM model, then check the service status.
C12_GuideOrder ==
    shScript = "setup.sh" =>
        /\ Follows("chmod", "mkdir")
        /\ Follows("docker-compose build", "chmod")
        /\ Follows("docker-compose up", "docker-compose build")
        /\ Follows("ollama pull", "docker-compose up")
        /\ Follows("curl backend", "ollama pull")
        /\ Follows("curl frontend", "ollama pull")
        /\ Follows("curl flowise", "ollama pull")

\* C13: without docker or docker-compose setup.sh prints an error and exits
\* with status 1, having created no directory, changed no permission, copied
\* no .env and run no docker-compose; an .env.local that exists is never
\* overwritten.
C13_PrerequisitesAndEnvLocal ==
    [][shScript = "setup.sh" =>
           /\ (~shTools.docker \/ ~shTools.compose) =>
                  /\ shOut' \in {<<>>, <<"error: Docker is not installed">>,
                                 <<"error: Docker Compose is not installed">>}
                  /\ shExit' \in {"running", "1"}
                  /\ shExit' = "1" <=> shOut' # <<>>
                  /\ shFiles' = shFiles
           /\ shFiles.envLocal = "user" =>
                  /\ shFiles'.envLocal = "user"
                  /\ ~\E i \in 1..Len(shOut') : shOut'[i] = "cp .env .env.local"]_vars

\* setup.sh has passed the copy step and reached the build with the user's
\* .env.local in place
C13_Witness ==
    /\ shScript = "setup.sh"
    /\ shFiles.envLocal = "user"
    /\ Has("docker-compose build")

\* a command that ran and returned a non-zero status, which under set -e ends
\* the script there
Failed(cmd) == shExit = "nonzero" /\ shOut # <<>> /\ shOut[Len(shOut)] = cmd
Succeeded(cmd) == Has(cmd) /\ ~Failed(cmd)

C15_ThrowingPoll ==
    [][(smDone'.id # 0 /\ smDone'.threw) =>
           /\ systemData'.status = "error"
           /\ \A s \in Services : heap'[systemData'.services][s] = "offline"
           /\ systemData'.performance = systemData.performance
           /\ systemData'.learning = systemData.learning
           /\ lastUpdate' = lastUpdate]_vars

\* a poll whose three requests were all 2xx threw, after an earlier poll had
\* filled the performance list and stamped the update time
C15_Witness ==
    /\ smDone.id # 0
    /\ smDone.threw
    /\ \A s \in Services : smDone.ok[s]
    /\ \A s \in Services : heap[systemData.services][s] = "offline"
    /\ systemData.performance # <<>>
    /\ lastUpdate # 0

\* the request a fetchFlowiseData call waits on, "none" if it is not in flight
PcOf(calls, id) ==
    IF \E c \in calls : c.id = id THEN (CHOOSE c \in calls : c.id = id).pc ELSE "none"

\* C16: fetchFlowiseData issues config, chatflows, test-connection in that
\* order, each once the previous response was handled; when one of them is
\* rejected the call issues no later request, the Flowise status becomes
\* 'offline', and the chatflow list and the other config fields stay as they
\* were when the rejection was handled.
C16_InOrderAndRejection ==
    [][/\ \A id \in 1..MaxRefresh :
              <<PcOf(fmCalls, id), PcOf(fmCalls', id)>> \in
                  {<<"none", "none">>, <<"none", "config">>,
                   <<"config", "config">>, <<"config", "chatflows">>,
                   <<"chatflows", "chatflows">>, <<"chatflows", "test">>,
                   <<"test", "test">>,
                   <<"config", "none">>, <<"chatflows", "none">>, <<"test", "none">>}
       /\ (fmDone'.id # 0 /\ fmDone'.rejected) =>
              /\ PcOf(fmCalls, fmDone'.id) = fmDone'.pc
              /\ PcOf(fmCalls', fmDone'.id) = "none"
              /\ FlowiseStatus' = "offline"
              /\ chatflows' = chatflows
              /\ flowiseConfig'.llm_status = flowiseConfig.llm_status
       /\ (fmDone'.id # 0 /\ ~fmDone'.threw) => fmDone'.pc = "test"]_vars

\* the chatflows request of a call was rejected while the panel held a
\* non-empty list and an llm status from earlier responses
C16_Witness ==
    /\ fmDone.id # 0
    /\ fmDone.rejected
    /\ fmDone.pc = "chatflows"
    /\ chatflows > 0
    /\ flowiseConfig.llm_status # "absent"
    /\ FlowiseStatus = "offline"

\* the messages of one type
CountOf(msgs, type) == Cardinality({i \in 1..Len(msgs) : msgs[i].type = type})

\* C17: when check-and-setup is rejected or its body does not parse, the send
\* ends there with one error bot message and its main request is never
\* issued; when check-and-setup answers 'setup_attempted', exactly one system
\* message is appended before the main request is issued.
C17_SetupStep ==
    [][/\ (chDone'.id # 0 /\ chDone'.pc = "setup") =>
              /\ chDone'.mainRequests = 0
              /\ \A s \in chSends' : s.id # chDone'.id
              /\ Len(messages') = Len(messages) + 1
              /\ SubSeq(messages', 1, Len(messages)) = messages
              /\ LastMessage.type = "bot"
              /\ LastMessage.status = "error"
       /\ \A s \in chSends : \A n \in chSends' :
              (s.id = n.id /\ s.pc = "setup" /\ n.pc = "main") =>
                  /\ s.mainRequests = 0 /\ n.mainRequests = 1
                  /\ IF n.setupStatus = "setup_attempted"
                     THEN /\ Len(messages') = Len(messages) + 1
                          /\ SubSeq(messages', 1, Len(messages)) = messages
                          /\ LastMessage.type = "system"
                          /\ CountOf(messages', "system") = CountOf(messages, "system") + 1
                     ELSE messages' = messages
       /\ \A s \in chSends : \A n \in chSends' :
              (s.id = n.id /\ s.pc = "main") => (n.pc = "main" /\ messages' = messages)]_vars

\* the main request of a send is in flight after an attempted setup: the list
\* is the initial message, the user's message and one setup message
C17_Witness ==
    \E s \in chSends :
        /\ s.pc = "main"
        /\ s.setupStatus = "setup_attempted"
        /\ s.mainRequests = 1
        /\ Len(messages) = 3
        /\ messages[3].type = "system"

\* what the badge shows for each way the status request can stand
BadgeFor(req) ==
    IF req = "pending" THEN "loading"
    ELSE IF req = "ok" THEN "active"
    ELSE "error"

\* C18: the header badge starts as 'loading', is set once, from the one
\* status request of the mount effect ('active' for a 2xx response, 'error'
\* for a non-2xx response or a rejection), and never changes afterwards,
\* whatever the polls of the panels observe.
C18_HeaderStatusSetOnce ==
    [][/\ systemStatus = BadgeFor(statusReq)
       /\ systemStatus' = BadgeFor(statusReq')
       /\ statusReq # "pending" => (statusReq' = statusReq /\ systemStatus' = systemStatus)
       /\ systemStatus' # systemStatus =>
              (systemStatus = "loading" /\ statusReq = "pending" /\ statusReq' \in Settled)]_vars

\* the badge shows 'active' from the 2xx status response while a later poll of
\* SystemMonitor has ended with status 'error'
C18_Witness ==
    /\ systemStatus = "active"
    /\ statusReq = "ok"
    /\ smMounted
    /\ systemData.status = "error"
    /\ smDone.id # 0

Panels == {"SystemMonitor", "ChatInterface", "FlowiseManager", "EthicsPanel",
           "SecurityPanel", "ImprovementPanel", "ServicesPanel"}

\* C19: the active tab is always one of the seven panel ids and exactly one
\* panel is rendered for it; a click on a navigation item makes that item the
\* active tab, closes the sidebar and leaves the header status as it was.
C19_TabsAndNavigation ==
    [][/\ activeTab' \in Tabs
       /\ renderContent' \in Panels
       /\ Cardinality({tab \in Tabs : activeTab' = tab}) = 1
       /\ (smTimer' # 0) <=> (renderContent' = "SystemMonitor")
       /\ (fmTimer' # 0) <=> (renderContent' = "FlowiseManager")
       /\ (renderContent' = "ChatInterface") => chInst' > 0
       /\ \A tab \in Tabs : Navigate(tab) =>
              (activeTab' = tab /\ ~sidebarOpen' /\ systemStatus' = systemStatus)
       /\ activeTab' # activeTab => (~sidebarOpen' /\ systemStatus' = systemStatus)]_vars

\* the services tab was reached by a click that closed the open sidebar,
\* after the header status had been set
C19_Witness ==
    /\ activeTab = "services"
    /\ renderContent = "ServicesPanel"
    /\ ~sidebarOpen
    /\ systemStatus = "error"
    /\ smInst = 1 /\ smTimer = 0

\* C20: panel state does not survive a tab switch: on the return to the chat
\* tab the message list is the single initial system message and no send is
\* marked in flight, whatever was sent before; on the return to the dashboard
\* tab the performance list of SystemMonitor is empty.
C20_StateResetOnReturn ==
    [][/\ (activeTab # "chat" /\ activeTab' = "chat") =>
              (messages' = InitialMessages /\ ~isLoading' /\ chSends' = {})
       /\ (activeTab # "dashboard" /\ activeTab' = "dashboard") =>
              (systemData'.performance = <<>> /\ lastUpdate' = 0)]_vars

\* the chat tab is shown for the second time, with the initial message only,
\* after a message was sent in its first instance
C20_Witness ==
    /\ activeTab = "chat"
    /\ chInst = 2
    /\ chSeq > 0
    /\ messages = InitialMessages
    /\ ~isLoading

\* C21: at most one send is in flight: handleSendMessage, invoked while the
\* input is blank or a send is in flight, returns at once, so that no user
\* message is appended, no request issued, and input and loading flag stay.
C21_OneSendAtATime ==
    [][/\ Cardinality(chSends) <= 1
       /\ Cardinality(chSends') <= 1
       /\ isLoading <=> chSends # {}
       /\ (TrimIsEmpty(inputValue) \/ isLoading) =>
              /\ ~ENABLED handleSendMessage
              /\ chSeq' = chSeq
              /\ \A n \in chSends' : \E s \in chSends : s.id = n.id
              /\ ~(Len(messages') > Len(messages) /\ LastMessage.type = "user")
       /\ chSeq' # chSeq =>
              (~TrimIsEmpty(inputValue) /\ ~isLoading /\ chSends = {})]_vars

\* a quick action has filled the input while the first send is in flight and
\* a second send is still allowed
C21_Witness ==
    /\ chatMounted
    /\ isLoading
    /\ Cardinality(chSends) = 1
    /\ ~TrimIsEmpty(inputValue)
    /\ chSeq < chLimit

\* where a list of messages stands: "idle" after the initial message or a bot
\* message, "user" after a user message, "setup" after a setup message that
\* followed a user message, "bad" for every other order
NextPhase(phase, type) ==
    IF phase = "start" /\ type = "system" THEN "idle"
    ELSE IF phase = "idle" /\ type = "user" THEN "user"
    ELSE IF phase = "user" /\ type = "system" THEN "setup"
    ELSE IF phase \in {"user", "setup"} /\ type = "bot" THEN "idle"
    ELSE "bad"

PhaseOf(msgs) ==
    LET f[i \in 0..Len(msgs)] ==
            IF i = 0 THEN "start" ELSE NextPhase(f[i - 1], msgs[i].type)
    IN  f[Len(msgs)]

\* C22: the message list only grows at its end, the initial system message
\* stays first, every accepted send appends one user message, at most one
\* setup message and one bot message in this order, and the loading flag is
\* false again once the send has settled, on the success and on every error
\* path.
C22_AppendOnlyOrdered ==
    [][/\ Len(messages') >= Len(messages)
       /\ SubSeq(messages', 1, Len(messages)) = messages
       /\ messages'[1] = InitialMessages[1]
       /\ PhaseOf(messages') # "bad"
       /\ (PhaseOf(messages') = "idle") <=> (chSends' = {})
       /\ Len(messages') <= Len(messages) + 1
       /\ CountOf(messages', "user") = chSeq'
       /\ CountOf(messages', "bot") = chSeq' - Cardinality(chSends')
       /\ chDone'.id # 0 => (~isLoading' /\ LastMessage.type = "bot")
       /\ chSends' = {} => ~isLoading']_vars

\* two sends have settled, the second on an error path; one of them had a
\* setup message
C22_Witness ==
    /\ chSeq = 2
    /\ chSends = {}
    /\ Len(messages) = 6
    /\ chDone.id = 2
    /\ chDone.failed
    /\ ~isLoading

\* C23: the ids of the chat messages are pairwise distinct in every reachable
\* state, for any sequence of sends and any non-decreasing millisecond clock.
C23_DistinctIds ==
    \A i, j \in 1..Len(msgIds) : i # j => msgIds[i] # msgIds[j]

\* the endpoint the label of a quick action names
LabelEndpoint(command) ==
    CASE command = QuickStatus -> AiStatus
      [] command = QuickImprove -> AutonomousImprovement
      [] command = QuickFlowise -> FlowiseChatflows
      [] command = QuickLearning -> LlmFeedback

\* C24: the command of each of the four quick actions, sent unchanged, goes to
\* the endpoint its label names: 'System Status' to /api/ai/status,
\* 'Selbstverbesserung' to /api/learning/autonomous-improvement, 'Flowise
\* Status' to /api/flowise/chatflows, 'Lernfortschritt' to
\* /api/learning/llm-feedback.
C24_QuickActionRouting ==
    \A s \in chSends :
        (s.pc = "main" /\ s.inputValue \in QuickCommands) =>
            s.endpoint = LabelEndpoint(s.inputValue)

\* 2xx bodies of GET /api/flowise/chatflows as both readers see them: an
\* object with a data array of n chatflows, an object without data, or an
\* array of n chatflows
FlowBodies ==
    {[parses |-> TRUE, error |-> "absent", message |-> "absent",
      hasData |-> TRUE, data |-> n, hasLength |-> FALSE, length |-> 0] : n \in 0..MaxFlows}
    \cup {[parses |-> TRUE, error |-> "absent", message |-> "absent",
           hasData |-> FALSE, data |-> 0, hasLength |-> FALSE, length |-> 0]}
    \cup {[parses |-> TRUE, error |-> "absent", message |-> "absent",
           hasData |-> FALSE, data |-> 0, hasLength |-> TRUE, length |-> n] :
              n \in 0..MaxFlows}

\* C25: for the same 2xx body of GET /api/flowise/chatflows the chat reports
\* 'n Chatflows gefunden' exactly when the Flowise panel lists n > 0
\* chatflows, and 'Keine Chatflows verfügbar' exactly when it lists none.
C25_ChatAgreesWithPanel ==
    [][\A s \in chSends : \A b \in FlowBodies :
           (s.pc = "main" /\ s.endpoint = FlowiseChatflows
               /\ MainReply(s, [r |-> "ok", body |-> b])) =>
                  LastMessage.arg =
                      IF ChatflowsOf(b) > 0
                      THEN ToString(ChatflowsOf(b)) \o " Chatflows gefunden"
                      ELSE "Keine Chatflows verfügbar"]_vars

\* C26: after a SystemMonitor poll whose backend status request was rejected
\* or answered non-2xx, the overview badge does not show 'active'.
C26_FailedStatusNotActive ==
    (smMounted /\ smDone.id # 0 /\ ~smDone.ok.backend) => systemData.status # "active"

\* C27: in FlowiseManager the loading flag is true in every state in which a
\* fetchFlowiseData call is in flight, overlapping calls included, and false
\* once every started call has settled, whatever its requests got.
C27_LoadingWhileInFlight ==
    fmMounted =>
        /\ fmCalls # {} => loading
        /\ (fmCalls = {} /\ fmSeq > 0) => ~loading
====
